---- MODULE Spec2Model ----
(***************************************************************************)
(* Model of dashboard.py: the Play Store combined dashboard.                *)
(*                                                                         *)
(* The script loads one table (df_apps), samples the wall clock once,       *)
(* runs prepare_choropleth_data() and prepare_time_series_data(), derives   *)
(* the two visibility flags from the sampled hour and composes the layout.  *)
(*                                                                         *)
(* Text is modelled as a tuple of one-character strings, so that the        *)
(* string operations of the script (regex search, replace, strip, lower,    *)
(* startswith, float parsing, date parsing) are computed character by       *)
(* character.  A missing value (None / NaN / NaT) is the empty tuple NA; a  *)
(* present number is an integer.  Install counts are float64 in the script; *)
(* every value the model reaches is an integer far below 2^53, where        *)
(* float64 sums are exact.  pct_change is kept as an exact fraction.        *)
(***************************************************************************)
EXTENDS Integers, Sequences, FiniteSets, TLC

VARIABLES
    pc,                 \* position of the script (next statement group to run)
    df_apps,            \* the loaded table: a sequence of raw rows
    hour,               \* now.hour, sampled once at line 14
    geo_df,             \* local df of prepare_choropleth_data
    top5,               \* local top5 of prepare_choropleth_data
    choropleth_data,    \* module-level result of prepare_choropleth_data()
    ts_df,              \* local df of prepare_time_series_data
    df_grouped,         \* local df_grouped of prepare_time_series_data
    time_series_data,   \* module-level result of prepare_time_series_data()
    show_map,           \* line 154
    show_chart,         \* line 155
    layout              \* app.layout, reduced to what each tab shows

vars == <<pc, df_apps, hour, geo_df, top5, choropleth_data, ts_df, df_grouped,
          time_series_data, show_map, show_chart, layout>>

-----------------------------------------------------------------------------
(* Bounds of the model *)

MaxLen == 3         \* longest generated Installs text (SpecClean)
MaxGeoRows == 6     \* most rows of a table of SpecGeo
MaxTsRows == 3      \* most rows of a table of SpecGrowth

-----------------------------------------------------------------------------
(* Text helpers *)

NA == <<>>          \* None / NaN / NaT
Some(v) == <<v>>    \* a present value of a column that may hold NA
Val(o) == o[1]
Unset == "unset"    \* a name not assigned yet

Digits == <<"0", "1", "2", "3", "4", "5", "6", "7", "8", "9">>
UpperCase == <<"A", "B", "C", "D", "E", "F", "G", "H", "I", "J", "K", "L", "M",
               "N", "O", "P", "Q", "R", "S", "T", "U", "V", "W", "X", "Y", "Z">>
LowerCase == <<"a", "b", "c", "d", "e", "f", "g", "h", "i", "j", "k", "l", "m",
               "n", "o", "p", "q", "r", "s", "t", "u", "v", "w", "x", "y", "z">>

IsDigit(c) == \E i \in DOMAIN Digits : Digits[i] = c
DigitVal(c) == (CHOOSE i \in DOMAIN Digits : Digits[i] = c) - 1

LowerChar(c) ==
    IF \E i \in DOMAIN UpperCase : UpperCase[i] = c
    THEN LowerCase[CHOOSE i \in DOMAIN UpperCase : UpperCase[i] = c]
    ELSE c

\* str.lower()
Lower(s) == [i \in DOMAIN s |-> LowerChar(s[i])]

\* str.startswith(prefixes) for one-character prefixes
StartsWithAny(s, prefixes) == Len(s) > 0 /\ s[1] \in prefixes

\* str.contains of a one-character class
ContainsAny(s, chars) == \E i \in DOMAIN s : s[i] \in chars

RECURSIVE RemoveChars(_, _)
\* str.replace('[...]', '', regex=True): every character of the class is removed
RemoveChars(s, chars) ==
    IF s = <<>> THEN <<>>
    ELSE IF Head(s) \in chars THEN RemoveChars(Tail(s), chars)
    ELSE <<Head(s)>> \o RemoveChars(Tail(s), chars)

RECURSIVE LStrip(_)
LStrip(s) == IF s # <<>> /\ Head(s) = " " THEN LStrip(Tail(s)) ELSE s

RECURSIVE RStrip(_)
RStrip(s) ==
    IF s # <<>> /\ s[Len(s)] = " " THEN RStrip(SubSeq(s, 1, Len(s) - 1)) ELSE s

\* str.strip()
Strip(s) == RStrip(LStrip(s))

RECURSIVE DecimalValue(_)
\* value of a run of decimal digits
DecimalValue(ds) ==
    IF ds = <<>> THEN 0
    ELSE 10 * DecimalValue(SubSeq(ds, 1, Len(ds) - 1)) + DigitVal(ds[Len(ds)])

AllDigits(s) == s # <<>> /\ \A i \in DOMAIN s : IsDigit(s[i])

\* float(x) inside try/except: surrounding blanks are skipped, one sign is
\* accepted, then a run of digits.  The other forms of the float grammar
\* (fraction, exponent, underscores, inf, nan) need characters that no text of
\* the model combines with a digit.  A ValueError is NA (the except branch).
ParseFloat(x) ==
    LET t == Strip(x)
        signed == t # <<>> /\ t[1] \in {"+", "-"}
        body == IF signed THEN Tail(t) ELSE t
    IN  IF ~AllDigits(body) THEN NA
        ELSE IF signed /\ t[1] = "-" THEN Some(0 - DecimalValue(body))
        ELSE Some(DecimalValue(body))

-----------------------------------------------------------------------------
(* Program constants *)

MinTotal == 1000000     \* top_categories > 1_000_000
TopN == 5               \* .head(5)
MinReviews == 500       \* df['Reviews'] > 500
GrowthNum == 1          \* 0.20 = GrowthNum / GrowthDen
GrowthDen == 5
MapFrom == 18           \* 18 <= now.hour < 20
MapUntil == 20
ChartFrom == 18         \* 18 <= now.hour < 21
ChartUntil == 21

-----------------------------------------------------------------------------
(* Install-count cleaning, lines 23-35 and 76-88 *)

\* clean_installs(x) of prepare_choropleth_data, lines 26-32
clean_installs(x) ==
    IF Lower(Strip(x)) = <<"f", "r", "e", "e">> THEN NA ELSE ParseFloat(x)

\* clean_installs(x) of prepare_time_series_data, lines 79-85
ts_clean_installs(x) ==
    IF Lower(Strip(x)) = <<"f", "r", "e", "e">> THEN NA ELSE ParseFloat(x)

\* df['Installs'].str.contains('[0-9]', na=False)
HasDigit(s) == \E i \in DOMAIN s : IsDigit(s[i])

\* df['Installs'].str.replace('[+,]', '', regex=True)
StripPlusComma(s) == RemoveChars(s, {"+", ","})

\* df_apps.copy(): every row carries its index label
CopyFrame(table) ==
    [i \in DOMAIN table |->
        [idx |-> i, App |-> table[i].App, Category |-> table[i].Category,
         Installs |-> table[i].Installs, Reviews |-> table[i].Reviews,
         LastUpdated |-> table[i].LastUpdated]]

\* lines 23-24 (and 76-77): keep the rows whose text holds a digit (a boolean
\* mask keeps the order and the index labels), then remove '+' and ','
DigitRowsReplaced(df) ==
    LET withDigit == SelectSeq(df, LAMBDA r : HasDigit(r.Installs))
    IN  [i \in DOMAIN withDigit |->
            [withDigit[i] EXCEPT !.Installs = StripPlusComma(@)]]

\* line 35 (and 88): dropna(subset=['Installs']); the column is numeric after it
DropAbsentInstalls(df) ==
    LET kept == SelectSeq(df, LAMBDA r : r.Installs # NA)
    IN  [i \in DOMAIN kept |-> [kept[i] EXCEPT !.Installs = Val(@)]]

\* lines 21-35
GeoCleaned(table) ==
    LET replaced == DigitRowsReplaced(CopyFrame(table))
    IN  DropAbsentInstalls([i \in DOMAIN replaced |->
            [replaced[i] EXCEPT !.Installs = clean_installs(@)]])

\* lines 74-88
TsCleaned(table) ==
    LET replaced == DigitRowsReplaced(CopyFrame(table))
    IN  DropAbsentInstalls([i \in DOMAIN replaced |->
            [replaced[i] EXCEPT !.Installs = ts_clean_installs(@)]])

RECURSIVE SumInstalls(_)
\* ['Installs'].sum() over the rows of one group
SumInstalls(df) ==
    IF df = <<>> THEN 0 ELSE Head(df).Installs + SumInstalls(Tail(df))

-----------------------------------------------------------------------------
(* prepare_choropleth_data, lines 37-57 *)

\* C7 mutant: the prefix 'S' left out of the tuple of line 38
GeoCategoryKeptWithoutS(cat) == ~StartsWithAny(cat, {"A", "C", "G"})

\* ~df['Category'].str.startswith(('A', 'C', 'G', 'S'))
GeoCategoryKept(cat) == ~StartsWithAny(cat, {"A", "C", "G", "S"})

\* line 38
GeoRemoveUnwanted(df) == SelectSeq(df, LAMBDA r : GeoCategoryKept(r.Category))

\* df.groupby('Category')['Installs'].sum()
CategoryTotals(df) ==
    [c \in {df[i].Category : i \in DOMAIN df} |->
        SumInstalls(SelectSeq(df, LAMBDA r : r.Category = c))]

\* C5 mutant: the comparison of line 41 written >= instead of >
AtOrAboveThreshold(totals) == {c \in DOMAIN totals : totals[c] >= MinTotal}

\* top_categories[top_categories > 1_000_000]
AboveThreshold(totals) == {c \in DOMAIN totals : totals[c] > MinTotal}

RECURSIVE DescendingOrders(_, _)
\* sort_values(ascending=False): the default sort is not stable, so equal
\* totals may come out in either order; every descending order is an outcome
DescendingOrders(totals, cats) ==
    IF cats = {} THEN {<<>>}
    ELSE UNION {
        {<<c>> \o rest : rest \in DescendingOrders(totals, cats \ {c})} :
        c \in {m \in cats : \A d \in cats : totals[d] <= totals[m]}}

\* .head(n)
HeadN(s, n) == SubSeq(s, 1, IF Len(s) < n THEN Len(s) ELSE n)

\* line 41: the possible values of top5
Top5Choices(totals) ==
    {HeadN(o, TopN) : o \in DescendingOrders(totals, AboveThreshold(totals))}

\* line 43: df[df['Category'].isin(top5)]
RestrictToTop(df, top) ==
    SelectSeq(df, LAMBDA r : \E i \in DOMAIN top : top[i] = r.Category)

\* line 45: the names of pycountry.countries (two of them stand for the list)
CountryNames == {"India", "Japan"}

\* lines 48-52: pycountry.countries.lookup(name).alpha_3, None on LookupError
get_iso3(country_name) ==
    CASE country_name = "India" -> Some("IND")
      [] country_name = "Japan" -> Some("JPN")
      [] OTHER -> NA

\* line 46: one assignment of random.choices(countries, k=len(df))
WithCountries(df, choice) ==
    [i \in DOMAIN df |->
        [idx |-> df[i].idx, App |-> df[i].App, Category |-> df[i].Category,
         Installs |-> df[i].Installs, Reviews |-> df[i].Reviews,
         LastUpdated |-> df[i].LastUpdated, Country |-> choice[i]]]

\* lines 54-55: apply get_iso3, dropna(subset=['iso_alpha'])
WithIso(df) ==
    LET applied == [i \in DOMAIN df |->
                      [idx |-> df[i].idx, App |-> df[i].App,
                       Category |-> df[i].Category, Installs |-> df[i].Installs,
                       Reviews |-> df[i].Reviews, LastUpdated |-> df[i].LastUpdated,
                       Country |-> df[i].Country,
                       iso_alpha |-> get_iso3(df[i].Country)]]
        kept == SelectSeq(applied, LAMBDA r : r.iso_alpha # NA)
    IN  [i \in DOMAIN kept |-> [kept[i] EXCEPT !.iso_alpha = Val(@)]]

-----------------------------------------------------------------------------
(* prepare_time_series_data, lines 90-121 *)

\* pd.to_numeric(errors='coerce') on a text: the same decimal grammar as
\* float() for the characters of the model; anything else is NaN
ToNumeric(x) == ParseFloat(x)

\* C6 mutant: the comparison of line 92 written >= instead of >
ReviewsAtLeast(v) == v >= MinReviews

\* df['Reviews'] > 500
ReviewsKept(v) == v > MinReviews

\* lines 90-92
FilterReviews(df) ==
    LET parsed == [i \in DOMAIN df |-> [df[i] EXCEPT !.Reviews = ToNumeric(@)]]
        present == SelectSeq(parsed, LAMBDA r : r.Reviews # NA)
        numeric == [i \in DOMAIN present |->
                      [present[i] EXCEPT !.Reviews = Val(@)]]
    IN  SelectSeq(numeric, LAMBDA r : ReviewsKept(r.Reviews))

\* df['Category'].str.startswith(('E', 'C', 'B'))
TsCategoryKept(cat) == StartsWithAny(cat, {"E", "C", "B"})

\* line 94
FilterCategory(df) == SelectSeq(df, LAMBDA r : TsCategoryKept(r.Category))

\* ~App.str.lower().str.startswith(('x','y','z')) & ~App.str.contains('S', case=False)
AppKept(app) ==
    /\ ~StartsWithAny(Lower(app), {"x", "y", "z"})
    /\ ~ContainsAny(Lower(app), {"s"})

\* lines 96-99
FilterApp(df) == SelectSeq(df, LAMBDA r : AppKept(r.App))

Beauty == <<"B", "e", "a", "u", "t", "y">>
Business == <<"B", "u", "s", "i", "n", "e", "s", "s">>
Dating == <<"D", "a", "t", "i", "n", "g">>

\* the two labels of lines 102-103 are written in Devanagari and in Tamil
\* script; each is kept as one symbol, named here by its transliteration
SundarataLabel == <<"sundarata (Devanagari)">>
VarttakamLabel == <<"varttakam (Tamil)">>

\* lines 101-105
translations ==
    (Beauty :> SundarataLabel) @@ (Business :> VarttakamLabel) @@ (Dating :> Dating)

\* .map(translations).fillna(df['Category'])
Translate(cat) ==
    IF cat \in DOMAIN translations THEN translations[cat] ELSE cat

\* line 106
WithTranslation(df) ==
    [i \in DOMAIN df |->
        [idx |-> df[i].idx, App |-> df[i].App, Category |-> df[i].Category,
         Installs |-> df[i].Installs, Reviews |-> df[i].Reviews,
         LastUpdated |-> df[i].LastUpdated,
         Translated_Category |-> Translate(df[i].Category)]]

IsLeap(y) == (y % 4 = 0 /\ y % 100 # 0) \/ y % 400 = 0

DaysInMonth(y, m) ==
    IF m = 2 THEN (IF IsLeap(y) THEN 29 ELSE 28)
    ELSE IF m \in {4, 6, 9, 11} THEN 30 ELSE 31

\* pd.to_datetime(errors='coerce') on a text of the form YYYY-MM-DD; a text of
\* another shape, or naming no calendar day, is NaT
ParseDate(s) ==
    IF /\ Len(s) = 10
       /\ s[5] = "-" /\ s[8] = "-"
       /\ \A i \in {1, 2, 3, 4, 6, 7, 9, 10} : IsDigit(s[i])
    THEN LET y == DecimalValue(SubSeq(s, 1, 4))
             m == DecimalValue(SubSeq(s, 6, 7))
             d == DecimalValue(SubSeq(s, 9, 10))
         IN  IF m >= 1 /\ m <= 12 /\ d >= 1 /\ d <= DaysInMonth(y, m)
             THEN Some([year |-> y, month |-> m, day |-> d])
             ELSE NA
    ELSE NA

\* C10 mutant: the date kept as it is, day included
TruncMonthKeepDay(d) == d

\* .dt.to_period('M').dt.to_timestamp(): the first day of the month
TruncMonth(d) == [year |-> d.year, month |-> d.month, day |-> 1]

\* lines 108-110
WithMonth(df) ==
    LET parsed == [i \in DOMAIN df |->
                      [df[i] EXCEPT !.LastUpdated = ParseDate(@)]]
        kept == SelectSeq(parsed, LAMBDA r : r.LastUpdated # NA)
    IN  [i \in DOMAIN kept |->
            [idx |-> kept[i].idx, App |-> kept[i].App,
             Category |-> kept[i].Category, Installs |-> kept[i].Installs,
             Reviews |-> kept[i].Reviews,
             LastUpdated |-> Val(kept[i].LastUpdated),
             Translated_Category |-> kept[i].Translated_Category,
             Month |-> TruncMonth(Val(kept[i].LastUpdated))]]

\* timestamps compare by calendar order
DateBefore(a, b) ==
    \/ a.year < b.year
    \/ a.year = b.year /\ a.month < b.month
    \/ a.year = b.year /\ a.month = b.month /\ a.day < b.day

\* code point of a character, as far as the order of two labels needs it
CharRank(c) ==
    IF \E i \in DOMAIN UpperCase : UpperCase[i] = c
    THEN 64 + (CHOOSE i \in DOMAIN UpperCase : UpperCase[i] = c)
    ELSE IF \E i \in DOMAIN LowerCase : LowerCase[i] = c
    THEN 96 + (CHOOSE i \in DOMAIN LowerCase : LowerCase[i] = c)
    ELSE IF IsDigit(c) THEN 48 + DigitVal(c)
    ELSE IF c = " " THEN 32
    ELSE IF c = "_" THEN 95
    ELSE IF <<c>> = SundarataLabel THEN 2360
    ELSE IF <<c>> = VarttakamLabel THEN 2997
    ELSE 127

RECURSIVE TextBefore(_, _)
\* str < str
TextBefore(a, b) ==
    IF b = <<>> THEN FALSE
    ELSE IF a = <<>> THEN TRUE
    ELSE IF CharRank(Head(a)) # CharRank(Head(b))
    THEN CharRank(Head(a)) < CharRank(Head(b))
    ELSE TextBefore(Tail(a), Tail(b))

\* order of the group keys (Month, Translated_Category)
KeyBefore(k1, k2) ==
    \/ DateBefore(k1[1], k2[1])
    \/ k1[1] = k2[1] /\ TextBefore(k1[2], k2[2])

RECURSIVE SortKeys(_)
\* groupby sorts the group keys
SortKeys(keys) ==
    IF keys = {} THEN <<>>
    ELSE LET k == CHOOSE m \in keys : \A o \in keys \ {m} : KeyBefore(m, o)
         IN  <<k>> \o SortKeys(keys \ {k})

\* lines 112-116: groupby(['Month','Translated_Category'])['Installs'].sum().reset_index()
Grouped(df) ==
    LET keys == {<<df[i].Month, df[i].Translated_Category>> : i \in DOMAIN df}
        order == SortKeys(keys)
    IN  [i \in DOMAIN order |->
            [Month |-> order[i][1], Translated_Category |-> order[i][2],
             Installs |-> SumInstalls(SelectSeq(df, LAMBDA r :
                 r.Month = order[i][1] /\ r.Translated_Category = order[i][2]))]]

\* one step of pct_change: cur / prev - 1 as the fraction (cur - prev) / prev
\* with a positive denominator; a zero previous value gives +inf or -inf
\* (denominator 0, the sign in the numerator) or NaN for 0 / 0
PctChange(cur, prev) ==
    IF prev = 0
    THEN (IF cur = 0 THEN NA
          ELSE Some([num |-> IF cur > 0 THEN 1 ELSE 0 - 1, den |-> 0]))
    ELSE IF prev > 0 THEN Some([num |-> cur - prev, den |-> prev])
    ELSE Some([num |-> prev - cur, den |-> 0 - prev])

\* the row pct_change compares row i with: the previous row of its group
PreviousInGroup(g, i) ==
    LET earlier == {j \in 1..(i - 1) :
                      g[j].Translated_Category = g[i].Translated_Category}
    IN  IF earlier = {} THEN 0
        ELSE CHOOSE j \in earlier : \A k \in earlier : k <= j

\* C4 mutant: the comparison of line 119 written >= instead of >
SignificantGrowthAtLeast(growth) ==
    growth # NA /\ GrowthDen * Val(growth).num >= GrowthNum * Val(growth).den

\* df_grouped['MoM_Growth'] > 0.20 (NaN compares False)
SignificantGrowth(growth) ==
    growth # NA /\ GrowthDen * Val(growth).num > GrowthNum * Val(growth).den

\* lines 118-119
WithGrowth(g) ==
    LET mom(i) == IF PreviousInGroup(g, i) = 0 THEN NA
                  ELSE PctChange(g[i].Installs, g[PreviousInGroup(g, i)].Installs)
    IN  [i \in DOMAIN g |->
            [Month |-> g[i].Month,
             Translated_Category |-> g[i].Translated_Category,
             Installs |-> g[i].Installs,
             MoM_Growth |-> mom(i),
             Significant_Growth |-> SignificantGrowth(mom(i))]]

-----------------------------------------------------------------------------
(* Visibility and layout, lines 153-182 *)

\* C8 mutant: the upper end of the window of line 154 written <= instead of <
ShowMapInclusive(h) == MapFrom <= h /\ h <= MapUntil

\* line 154
ShowMap(h) == MapFrom <= h /\ h < MapUntil

\* line 155
ShowChart(h) == ChartFrom <= h /\ h < ChartUntil

\* C9 mutant: the figure built whatever the flag says
GraphFigureAlways(show, fig) == fig

\* figure=<fig> if show else {}
GraphFigure(show, fig) == IF show THEN fig ELSE [fig |-> "{}", data |-> <<>>]

\* style={"color": "red", ...} if not show else {"display": "none"}
WarningStyle(show) == IF ~show THEN "red-bold" ELSE "display-none"

\* lines 157-182
Layout(showMap, showChart, geo, ts) ==
    [map_figure |-> GraphFigure(showMap, [fig |-> "choropleth", data |-> geo]),
     map_warning |-> WarningStyle(showMap),
     chart_figure |-> GraphFigure(showChart, [fig |-> "time-series", data |-> ts]),
     chart_warning |-> WarningStyle(showChart)]

-----------------------------------------------------------------------------
(* Inputs: the tables the script may load and the hours it may sample *)

Foo == <<"F", "o", "o">>
Bar == <<"B", "a", "r">>
Xray == <<"X", "r", "a", "y">>
Yoga == <<"y", "o", "g", "a">>
Maps == <<"M", "a", "p", "s">>
Slack == <<"S", "l", "a", "c", "k">>

BUSINESS == <<"B", "U", "S", "I", "N", "E", "S", "S">>
EVENTS == <<"E", "V", "E", "N", "T", "S">>
COMICS == <<"C", "O", "M", "I", "C", "S">>
FAMILY == <<"F", "A", "M", "I", "L", "Y">>
DATING == <<"D", "A", "T", "I", "N", "G">>
TOOLS == <<"T", "O", "O", "L", "S">>
MEDICAL == <<"M", "E", "D", "I", "C", "A", "L">>
PHOTO == <<"P", "H", "O", "T", "O">>
ART == <<"A", "R", "T">>
GAME == <<"G", "A", "M", "E">>
SOCIAL == <<"S", "O", "C", "I", "A", "L">>

T_100 == <<"1", "0", "0", "+">>
T_110 == <<"1", "1", "0">>
T_120 == <<"1", "2", "0">>
T_150 == <<"1", "5", "0", "+">>
T_0 == <<"0", "+">>
T_Free == <<"F", "r", "e", "e">>
T_free == <<"f", "r", "e", "e">>
T_FREE == <<" ", "F", "R", "E", "E">>
T_abc == <<"a", "b", "c">>
T_neg == <<"-", "5">>
T_10k == <<"1", "0", ",", "0", "0", "0", "+">>
T_1M == <<"1", ",", "0", "0", "0", ",", "0", "0", "0", "+">>
T_1M1 == <<"1", ",", "0", "0", "0", ",", "0", "0", "1">>
T_5M == <<"5", ",", "0", "0", "0", ",", "0", "0", "0", "+">>
T_10M == <<"1", "0", ",", "0", "0", "0", ",", "0", "0", "0", "+">>
T_50M == <<"5", "0", ",", "0", "0", "0", ",", "0", "0", "0", "+">>

R_600 == <<"6", "0", "0">>
R_501 == <<"5", "0", "1">>
R_500 == <<"5", "0", "0">>
R_3M == <<"3", ".", "0", "M">>

D_Jan15 == <<"2", "0", "1", "8", "-", "0", "1", "-", "1", "5">>
D_Jan31 == <<"2", "0", "1", "8", "-", "0", "1", "-", "3", "1">>
D_Feb10 == <<"2", "0", "1", "8", "-", "0", "2", "-", "1", "0">>
D_Mar05 == <<"2", "0", "1", "8", "-", "0", "3", "-", "0", "5">>
D_Feb30 == <<"2", "0", "1", "8", "-", "0", "2", "-", "3", "0">>
D_bad == <<"s", "o", "o", "n">>

Row(app, cat, inst, rev, upd) ==
    [App |-> app, Category |-> cat, Installs |-> inst, Reviews |-> rev,
     LastUpdated |-> upd]

RECURSIVE SetsUpTo(_, _)
\* the subsets of S with at most k members
SetsUpTo(S, k) ==
    IF k = 0 THEN {{}}
    ELSE LET smaller == SetsUpTo(S, k - 1)
         IN  smaller \cup {p \cup {x} : p \in smaller, x \in S}

RECURSIVE Ascending(_)
\* the members of a set of numbers in increasing order
Ascending(S) ==
    IF S = {} THEN <<>>
    ELSE LET m == CHOOSE x \in S : \A y \in S : x <= y
         IN  <<m>> \o Ascending(S \ {m})

\* the tables made of at most k rows of a list of sample rows, in list order
\* (neither pipeline's result depends on the order of the rows of the table
\* beyond the order of its own output rows)
TablesOf(samples, k) ==
    {[i \in DOMAIN Ascending(p) |-> samples[Ascending(p)[i]]] :
        p \in SetsUpTo(DOMAIN samples, k)}

RECURSIVE TextsUpTo(_, _)
\* the texts of at most n characters over an alphabet
TextsUpTo(chars, n) ==
    IF n = 0 THEN {<<>>}
    ELSE LET shorter == TextsUpTo(chars, n - 1)
         IN  shorter \cup {<<c>> \o t : c \in chars, t \in shorter}

InstallChars == {"0", "1", "5", ",", "+", "-", "a", " "}

InstallTexts ==
    TextsUpTo(InstallChars, MaxLen)
        \cup {T_1M, T_Free, T_free, T_FREE, T_abc, T_0, T_10k}

\* SpecClean: one row whose Installs text is any text of InstallTexts
CleanTables == {<<Row(Foo, BUSINESS, t, R_600, D_Mar05)>> : t \in InstallTexts}

GeoSamples ==
    << Row(Foo, BUSINESS, T_5M, R_600, D_Mar05),
       Row(Bar, DATING, T_1M, R_600, D_Mar05),
       Row(Foo, DATING, T_1M, R_600, D_Mar05),
       Row(Foo, EVENTS, T_10M, R_600, D_Mar05),
       Row(Foo, FAMILY, T_5M, R_600, D_Mar05),
       Row(Foo, TOOLS, T_50M, R_600, D_Mar05),
       Row(Foo, MEDICAL, T_1M1, R_600, D_Mar05),
       Row(Foo, PHOTO, T_10M, R_600, D_Mar05),
       Row(Foo, GAME, T_50M, R_600, D_Mar05),
       Row(Foo, SOCIAL, T_50M, R_600, D_Mar05),
       Row(Foo, ART, T_Free, R_600, D_Mar05) >>

GeoTables == TablesOf(GeoSamples, MaxGeoRows)

TsSamples ==
    << Row(Foo, BUSINESS, T_10k, R_600, D_Mar05),
       Row(Foo, BUSINESS, T_100, R_600, D_Jan15),
       Row(Bar, BUSINESS, T_110, R_600, D_Jan31),
       Row(Foo, BUSINESS, T_110, R_600, D_Feb10),
       Row(Foo, BUSINESS, T_120, R_600, D_Feb10),
       Row(Foo, BUSINESS, T_150, R_600, D_Feb10),
       Row(Foo, BUSINESS, T_150, R_600, D_Mar05),
       Row(Foo, Business, T_100, R_600, D_Jan15),
       Row(Foo, Business, T_150, R_501, D_Feb10),
       Row(Foo, EVENTS, T_0, R_600, D_Jan15),
       Row(Foo, EVENTS, T_100, R_600, D_Feb10),
       Row(Foo, COMICS, T_neg, R_600, D_Feb10),
       Row(Foo, FAMILY, T_150, R_600, D_Feb10),
       Row(Foo, BUSINESS, T_150, R_500, D_Feb10),
       Row(Foo, BUSINESS, T_150, R_3M, D_Feb10),
       Row(Xray, BUSINESS, T_150, R_600, D_Feb10),
       Row(Yoga, BUSINESS, T_150, R_600, D_Feb10),
       Row(Maps, BUSINESS, T_150, R_600, D_Feb10),
       Row(Slack, BUSINESS, T_150, R_600, D_Feb10),
       Row(Foo, BUSINESS, T_150, R_600, D_Feb30),
       Row(Foo, BUSINESS, T_150, R_600, D_bad),
       Row(Foo, BUSINESS, T_Free, R_600, D_Feb10) >>

TsTables == TablesOf(TsSamples, MaxTsRows)

GateTables == TablesOf(SubSeq(TsSamples, 1, 2), 2)

Hours == 0..23
EveningHours == {19, 21}
MapHour == {19}

-----------------------------------------------------------------------------
(* The script as a state machine *)

InitWith(tables, hours) ==
    /\ pc = "geo_clean"
    /\ df_apps \in tables                   \* line 10
    /\ hour \in hours                       \* lines 13-14
    /\ geo_df = <<>>
    /\ top5 = <<>>
    /\ choropleth_data = Unset
    /\ ts_df = <<>>
    /\ df_grouped = <<>>
    /\ time_series_data = Unset
    /\ show_map = Unset
    /\ show_chart = Unset
    /\ layout = Unset

\* lines 21-35
GeoCleanInstalls ==
    /\ pc = "geo_clean"
    /\ geo_df' = GeoCleaned(df_apps)
    /\ pc' = "geo_filter"
    /\ UNCHANGED <<df_apps, hour, top5, choropleth_data, ts_df, df_grouped,
                   time_series_data, show_map, show_chart, layout>>

\* line 38
GeoFilterCategory ==
    /\ pc = "geo_filter"
    /\ geo_df' = GeoRemoveUnwanted(geo_df)
    /\ pc' = "geo_top5"
    /\ UNCHANGED <<df_apps, hour, top5, choropleth_data, ts_df, df_grouped,
                   time_series_data, show_map, show_chart, layout>>

\* lines 40-41
GeoTop5 ==
    /\ pc = "geo_top5"
    /\ top5' \in Top5Choices(CategoryTotals(geo_df))
    /\ pc' = "geo_restrict"
    /\ UNCHANGED <<df_apps, hour, geo_df, choropleth_data, ts_df, df_grouped,
                   time_series_data, show_map, show_chart, layout>>

\* line 43
GeoRestrict ==
    /\ pc = "geo_restrict"
    /\ geo_df' = RestrictToTop(geo_df, top5)
    /\ pc' = "geo_country"
    /\ UNCHANGED <<df_apps, hour, top5, choropleth_data, ts_df, df_grouped,
                   time_series_data, show_map, show_chart, layout>>

\* lines 45-46
GeoAssignCountry ==
    /\ pc = "geo_country"
    /\ \E choice \in [DOMAIN geo_df -> CountryNames] :
          geo_df' = WithCountries(geo_df, choice)
    /\ pc' = "geo_iso"
    /\ UNCHANGED <<df_apps, hour, top5, choropleth_data, ts_df, df_grouped,
                   time_series_data, show_map, show_chart, layout>>

\* lines 48-57 and the assignment of line 150
GeoResolveIso ==
    /\ pc = "geo_iso"
    /\ geo_df' = WithIso(geo_df)
    /\ choropleth_data' = WithIso(geo_df)
    /\ pc' = "ts_clean"
    /\ UNCHANGED <<df_apps, hour, top5, ts_df, df_grouped, time_series_data,
                   show_map, show_chart, layout>>

\* lines 74-88
TsCleanInstalls ==
    /\ pc = "ts_clean"
    /\ ts_df' = TsCleaned(df_apps)
    /\ pc' = "ts_reviews"
    /\ UNCHANGED <<df_apps, hour, geo_df, top5, choropleth_data, df_grouped,
                   time_series_data, show_map, show_chart, layout>>

\* lines 90-92
TsFilterReviews ==
    /\ pc = "ts_reviews"
    /\ ts_df' = FilterReviews(ts_df)
    /\ pc' = "ts_category"
    /\ UNCHANGED <<df_apps, hour, geo_df, top5, choropleth_data, df_grouped,
                   time_series_data, show_map, show_chart, layout>>

\* line 94
TsFilterCategory ==
    /\ pc = "ts_category"
    /\ ts_df' = FilterCategory(ts_df)
    /\ pc' = "ts_app"
    /\ UNCHANGED <<df_apps, hour, geo_df, top5, choropleth_data, df_grouped,
                   time_series_data, show_map, show_chart, layout>>

\* lines 96-99
TsFilterApp ==
    /\ pc = "ts_app"
    /\ ts_df' = FilterApp(ts_df)
    /\ pc' = "ts_translate"
    /\ UNCHANGED <<df_apps, hour, geo_df, top5, choropleth_data, df_grouped,
                   time_series_data, show_map, show_chart, layout>>

\* lines 101-106
TsTranslate ==
    /\ pc = "ts_translate"
    /\ ts_df' = WithTranslation(ts_df)
    /\ pc' = "ts_month"
    /\ UNCHANGED <<df_apps, hour, geo_df, top5, choropleth_data, df_grouped,
                   time_series_data, show_map, show_chart, layout>>

\* lines 108-110
TsMonth ==
    /\ pc = "ts_month"
    /\ ts_df' = WithMonth(ts_df)
    /\ pc' = "ts_group"
    /\ UNCHANGED <<df_apps, hour, geo_df, top5, choropleth_data, df_grouped,
                   time_series_data, show_map, show_chart, layout>>

\* lines 112-116
TsGroup ==
    /\ pc = "ts_group"
    /\ df_grouped' = Grouped(ts_df)
    /\ pc' = "ts_growth"
    /\ UNCHANGED <<df_apps, hour, geo_df, top5, choropleth_data, ts_df,
                   time_series_data, show_map, show_chart, layout>>

\* lines 118-121 and the assignment of line 151
TsGrowth ==
    /\ pc = "ts_growth"
    /\ df_grouped' = WithGrowth(df_grouped)
    /\ time_series_data' = WithGrowth(df_grouped)
    /\ pc' = "gate"
    /\ UNCHANGED <<df_apps, hour, geo_df, top5, choropleth_data, ts_df,
                   show_map, show_chart, layout>>

\* lines 154-155
CheckVisibility ==
    /\ pc = "gate"
    /\ show_map' = ShowMap(hour)
    /\ show_chart' = ShowChart(hour)
    /\ pc' = "layout"
    /\ UNCHANGED <<df_apps, hour, geo_df, top5, choropleth_data, ts_df,
                   df_grouped, time_series_data, layout>>

\* lines 157-182
ComposeLayout ==
    /\ pc = "layout"
    /\ layout' = Layout(show_map, show_chart, choropleth_data, time_series_data)
    /\ pc' = "done"
    /\ UNCHANGED <<df_apps, hour, geo_df, top5, choropleth_data, ts_df,
                   df_grouped, time_series_data, show_map, show_chart>>

Next ==
    \/ GeoCleanInstalls
    \/ GeoFilterCategory
    \/ GeoTop5
    \/ GeoRestrict
    \/ GeoAssignCountry
    \/ GeoResolveIso
    \/ TsCleanInstalls
    \/ TsFilterReviews
    \/ TsFilterCategory
    \/ TsFilterApp
    \/ TsTranslate
    \/ TsMonth
    \/ TsGroup
    \/ TsGrowth
    \/ CheckVisibility
    \/ ComposeLayout

\* any hour of the day, a few small tables
Init == InitWith(GateTables, Hours)
Spec == Init /\ [][Next]_vars

\* one row, any Installs text
InitClean == InitWith(CleanTables, EveningHours)
SpecClean == InitClean /\ [][Next]_vars

\* tables that exercise the category ranking
InitGeo == InitWith(GeoTables, MapHour)
SpecGeo == InitGeo /\ [][Next]_vars

\* tables that exercise the filters and the monthly aggregation
InitGrowth == InitWith(TsTables, EveningHours)
SpecGrowth == InitGrowth /\ [][Next]_vars

\* the statement groups of the script in the order it runs them
PcOrder ==
    <<"geo_clean", "geo_filter", "geo_top5", "geo_restrict", "geo_country",
      "geo_iso", "ts_clean", "ts_reviews", "ts_category", "ts_app",
      "ts_translate", "ts_month", "ts_group", "ts_growth", "gate", "layout",
      "done">>

\* the script has come to, or passed, the statement group named
Reached(label) ==
    (CHOOSE i \in DOMAIN PcOrder : PcOrder[i] = pc)
        >= (CHOOSE i \in DOMAIN PcOrder : PcOrder[i] = label)

-----------------------------------------------------------------------------
(* Claims *)

\* C1 (as claimed): in the output of the Growth pipeline the first bucket of a
\* category has no MoM_Growth, and every other bucket has MoM_Growth equal to
\* (current - previous) / previous, previous being the installs of the bucket
\* of the same category for the immediately preceding calendar month.
C1_GrowthAgainstPrecedingCalendarMonth ==
    Reached("gate") =>
        \A i \in DOMAIN time_series_data :
            LET b == time_series_data[i]
                first == \A j \in 1..(i - 1) :
                    time_series_data[j].Translated_Category # b.Translated_Category
                before == IF b.Month.month = 1
                          THEN [year |-> b.Month.year - 1, month |-> 12, day |-> 1]
                          ELSE [year |-> b.Month.year, month |-> b.Month.month - 1,
                                day |-> 1]
            IN  IF first THEN b.MoM_Growth = NA
                ELSE \E j \in DOMAIN time_series_data :
                        LET p == time_series_data[j]
                        IN  /\ p.Translated_Category = b.Translated_Category
                            /\ p.Month = before
                            /\ \/ p.Installs = 0
                               \/ /\ b.MoM_Growth # NA
                                  /\ Val(b.MoM_Growth).num * p.Installs
                                       = (b.Installs - p.Installs) * Val(b.MoM_Growth).den

\* C2 (as claimed): the row {Foo, BUSINESS, "10,000+", "600", "2018-03-05"}
\* survives every filter of the Growth pipeline, carries the localization
\* table's label for Business, falls into month 2018-03-01 and adds 10000 to
\* that bucket; a code with an entry in the table carries the entry's label and
\* a code without one keeps its code.
C2_FooRowCarriesBusinessLabel ==
    Reached("ts_growth") =>
        /\ \A k \in DOMAIN df_apps :
              df_apps[k] = Row(Foo, BUSINESS, T_10k, R_600, D_Mar05) =>
                  \E i \in DOMAIN ts_df :
                      /\ ts_df[i].idx = k
                      /\ ts_df[i].Installs = 10000
                      /\ ts_df[i].Month = [year |-> 2018, month |-> 3, day |-> 1]
                      /\ ts_df[i].Translated_Category = VarttakamLabel
                      /\ ts_df[i].Translated_Category # BUSINESS
                      /\ \E j \in DOMAIN df_grouped :
                            /\ df_grouped[j].Month = ts_df[i].Month
                            /\ df_grouped[j].Translated_Category = VarttakamLabel
                            /\ df_grouped[j].Installs >= 10000
        /\ \A i \in DOMAIN ts_df :
              ts_df[i].Translated_Category =
                  IF ts_df[i].Category = Beauty THEN SundarataLabel
                  ELSE IF ts_df[i].Category = Business THEN VarttakamLabel
                  ELSE ts_df[i].Category

\* C3 (as claimed): the install-count cleaner gives 'absent' or a non-negative
\* number, the value of the text without '+' and ','; "1,000,000+" gives
\* 1000000, "0+" gives 0 and is kept, a text without a digit, "free" in any
\* case and a text that is no number give 'absent'; every record that leaves
\* the cleaning stage of either pipeline has a non-negative install count.
C3_CleanedInstallsNonNegative ==
    LET raw == df_apps[1].Installs
        Right(df) ==
            /\ \A i \in DOMAIN df : df[i].Installs >= 0
            /\ raw = T_1M => Len(df) = 1 /\ df[1].Installs = 1000000
            /\ raw = T_0 => Len(df) = 1 /\ df[1].Installs = 0
            /\ raw \in {T_Free, T_free, T_FREE, T_abc} => df = <<>>
            /\ ~(\E i \in DOMAIN raw : IsDigit(raw[i])) => df = <<>>
    IN  /\ pc = "geo_filter" /\ Len(df_apps) = 1 => Right(geo_df)
        /\ pc = "ts_reviews" /\ Len(df_apps) = 1 => Right(ts_df)

\* C4: a bucket of the Growth pipeline output is flagged Significant_Growth
\* exactly when its MoM_Growth is defined and strictly above 0.20; against a
\* positive previous total that is 5 * (current - previous) > previous, so
\* 100 -> 120 is not flagged; the first bucket of a category is never flagged.
C4_SignificantIffAboveTwentyPercent ==
    Reached("gate") =>
        \A i \in DOMAIN time_series_data :
            LET b == time_series_data[i]
                earlier == {j \in 1..(i - 1) :
                    time_series_data[j].Translated_Category = b.Translated_Category}
            IN  /\ b.Significant_Growth =
                      (/\ b.MoM_Growth # NA
                       /\ 5 * Val(b.MoM_Growth).num > Val(b.MoM_Growth).den)
                /\ earlier = {} => b.MoM_Growth = NA /\ ~b.Significant_Growth
                /\ earlier # {} =>
                      LET p == time_series_data[CHOOSE j \in earlier :
                                                    \A k \in earlier : k <= j]
                      IN  /\ p.Installs > 0 =>
                                (b.Significant_Growth
                                    = (5 * (b.Installs - p.Installs) > p.Installs))
                          /\ p.Installs = 100 /\ b.Installs = 120 => ~b.Significant_Growth
                          /\ p.Installs = 100 /\ b.Installs = 150 => b.Significant_Growth
                          /\ p.Installs = 100 /\ b.Installs = 110 => ~b.Significant_Growth

\* C4 witness: one output holds a bucket at exactly +20% that is not flagged
\* and a later bucket above +20% that is flagged
C4_Witness ==
    /\ pc = "done"
    /\ \E i, j \in DOMAIN time_series_data :
          /\ time_series_data[i].MoM_Growth = Some([num |-> 20, den |-> 100])
          /\ ~time_series_data[i].Significant_Growth
          /\ time_series_data[j].Significant_Growth
          /\ time_series_data[1].MoM_Growth = NA

\* C5: top5 has at most 5 members, all different; each is the category of a
\* cleaned, non-excluded record and its summed installs are strictly above
\* 1,000,000; the members are in descending order of total; no category above
\* the threshold that was left out has a larger total than a member.  (top5 is
\* assigned once, by line 41; the formula reads it in the state line 41 leaves.)
C5_TopCategorySet ==
    pc = "geo_restrict" =>
        LET eligible == SelectSeq(GeoCleaned(df_apps), LAMBDA r :
                            r.Category[1] \notin {"A", "C", "G", "S"})
            total(c) == SumInstalls(SelectSeq(eligible, LAMBDA r : r.Category = c))
            members == {top5[i] : i \in DOMAIN top5}
        IN  /\ Len(top5) <= 5
            /\ \A i, j \in DOMAIN top5 : i # j => top5[i] # top5[j]
            /\ \A c \in members :
                  /\ \E k \in DOMAIN eligible : eligible[k].Category = c
                  /\ total(c) > 1000000
            /\ \A i, j \in DOMAIN top5 : i < j => total(top5[i]) >= total(top5[j])
            /\ \A k \in DOMAIN eligible :
                  LET c == eligible[k].Category
                  IN  c \notin members /\ total(c) > 1000000 =>
                          /\ Len(top5) = 5
                          /\ \A m \in members : total(c) <= total(m)

\* C5 witness: six categories are above the threshold, five were taken, and
\* the table also holds a category that was left out
C5_Witness ==
    /\ pc = "geo_restrict"
    /\ Len(top5) = 5
    /\ \E k \in DOMAIN geo_df :
          /\ \A i \in DOMAIN top5 : top5[i] # geo_df[k].Category
          /\ CategoryTotals(geo_df)[geo_df[k].Category] > 1000000

\* C6: every record summed into a bucket of the Growth pipeline has a numeric
\* review count strictly above 500, a category code that begins with E, C or
\* B, and an app name that neither starts with x, y or z nor contains the
\* letter s, in either case.
C6_GrowthRecordsPassFilters ==
    Reached("ts_translate") =>
        \A i \in DOMAIN ts_df :
            LET raw == df_apps[ts_df[i].idx]
            IN  /\ AllDigits(raw.Reviews)
                /\ DecimalValue(raw.Reviews) > 500
                /\ raw.Category[1] \in {"E", "C", "B"}
                /\ raw.App[1] \notin {"x", "y", "z", "X", "Y", "Z"}
                /\ \A k \in DOMAIN raw.App : raw.App[k] \notin {"s", "S"}

\* C6 witness: a bucket was built while the table held a record with exactly
\* 500 reviews, which is in no bucket
C6_Witness ==
    /\ pc = "done"
    /\ Len(ts_df) > 0
    /\ Len(time_series_data) > 0
    /\ \E k \in DOMAIN df_apps :
          /\ df_apps[k].Reviews = R_500
          /\ \A i \in DOMAIN ts_df : ts_df[i].idx # k

\* C7: every record of the Geo pipeline output has a category that is in top5
\* and does not begin with A, C, G or S, an install count and a region code;
\* no category with an excluded prefix occupies a slot of top5.
C7_GeoRecords ==
    /\ Reached("geo_restrict") =>
          \A i \in DOMAIN top5 : top5[i][1] \notin {"A", "C", "G", "S"}
    /\ Reached("ts_clean") =>
          \A i \in DOMAIN choropleth_data :
              LET r == choropleth_data[i]
              IN  /\ \E k \in DOMAIN top5 : top5[k] = r.Category
                  /\ r.Category[1] \notin {"A", "C", "G", "S"}
                  /\ r.Installs \in Int
                  /\ r.iso_alpha \in {"IND", "JPN"}

\* C7 witness: records were emitted from a table that also held a record of an
\* excluded category with more installs than any emitted one
C7_Witness ==
    /\ pc = "ts_clean"
    /\ Len(choropleth_data) > 0
    /\ \E k \in DOMAIN df_apps :
          /\ df_apps[k].Category = SOCIAL
          /\ \A i \in DOMAIN choropleth_data :
                choropleth_data[i].idx # k /\ choropleth_data[i].Installs < 50000000

\* C8: the map is visible iff 18 <= hour < 20 and the chart iff 18 <= hour < 21;
\* at 19 both, at 20 the chart only, at 21 and at 17 neither; a visible map
\* comes with a visible chart.
C8_VisibilityWindows ==
    Reached("layout") =>
        /\ show_map = (hour \in {18, 19})
        /\ show_chart = (hour \in {18, 19, 20})
        /\ hour = 19 => show_map /\ show_chart
        /\ hour = 20 => ~show_map /\ show_chart
        /\ hour \in {17, 21} => ~show_map /\ ~show_chart
        /\ show_map => show_chart

\* C8 witness: at 20 h the map is hidden and the chart is shown
C8_Witness == pc = "done" /\ hour = 20 /\ show_map = FALSE /\ show_chart = TRUE

\* C9: whatever the hour, when the page is composed both pipelines have run
\* to their end and returned their tables; in each tab the figure is rendered
\* iff the tab's flag is true and the warning is displayed iff it is false,
\* so exactly one of the two is shown.
C9_ComputeAlwaysRenderGated ==
    /\ Reached("layout") =>
            /\ choropleth_data = geo_df
            /\ time_series_data = df_grouped
            /\ \A i \in DOMAIN time_series_data :
                  time_series_data[i].Significant_Growth \in BOOLEAN
    /\ pc = "done" =>
            /\ (layout.map_figure.fig = "choropleth") = show_map
            /\ (layout.map_warning = "red-bold") = ~show_map
            /\ (layout.map_figure.fig = "choropleth") # (layout.map_warning = "red-bold")
            /\ (layout.chart_figure.fig = "time-series") = show_chart
            /\ (layout.chart_warning = "red-bold") = ~show_chart
            /\ (layout.chart_figure.fig = "time-series")
                   # (layout.chart_warning = "red-bold")
            /\ show_map => layout.map_figure.data = choropleth_data
            /\ show_chart => layout.chart_figure.data = time_series_data

\* C9 witness: outside both windows the page is composed from computed,
\* non-empty growth data, with both warnings shown
C9_Witness ==
    /\ pc = "done"
    /\ hour = 12
    /\ Len(time_series_data) > 0
    /\ layout.map_warning = "red-bold"
    /\ layout.chart_warning = "red-bold"

\* C10: the Growth output has one bucket per (month, label) pair that has a
\* surviving record and no other bucket; a bucket's installs are the sum of
\* the installs of the surviving records of its month (day discarded) and
\* label; a record with an unparseable date is in no bucket; within a category
\* the buckets are in strictly increasing month order.
C10_BucketsPerMonthAndCategory ==
    Reached("ts_growth") =>
        LET monthOf(r) == [year |-> r.LastUpdated.year,
                           month |-> r.LastUpdated.month, day |-> 1]
            inBucket(b) == SelectSeq(ts_df, LAMBDA r :
                               monthOf(r) = b.Month
                                   /\ r.Translated_Category = b.Translated_Category)
        IN  /\ \A i, j \in DOMAIN df_grouped :
                  i # j => \/ df_grouped[i].Month # df_grouped[j].Month
                           \/ df_grouped[i].Translated_Category
                                  # df_grouped[j].Translated_Category
            /\ \A i \in DOMAIN df_grouped :
                  /\ inBucket(df_grouped[i]) # <<>>
                  /\ df_grouped[i].Installs = SumInstalls(inBucket(df_grouped[i]))
            /\ \A k \in DOMAIN ts_df :
                  /\ ParseDate(df_apps[ts_df[k].idx].LastUpdated) # NA
                  /\ \E i \in DOMAIN df_grouped :
                        /\ df_grouped[i].Month = monthOf(ts_df[k])
                        /\ df_grouped[i].Translated_Category
                               = ts_df[k].Translated_Category
            /\ \A i, j \in DOMAIN df_grouped :
                  i < j /\ df_grouped[i].Translated_Category
                               = df_grouped[j].Translated_Category
                      => DateBefore(df_grouped[i].Month, df_grouped[j].Month)

\* C10 witness: a bucket sums two records of different days of one month, and
\* the table held a record whose date does not parse
C10_Witness ==
    /\ pc = "ts_growth"
    /\ \E a, b \in DOMAIN ts_df :
          /\ a # b
          /\ ts_df[a].Month = ts_df[b].Month
          /\ ts_df[a].LastUpdated # ts_df[b].LastUpdated
          /\ ts_df[a].Translated_Category = ts_df[b].Translated_Category
          /\ ts_df[a].Installs > 0 /\ ts_df[b].Installs > 0
    /\ \E k \in DOMAIN df_apps : ParseDate(df_apps[k].LastUpdated) = NA

====
